---- MODULE Spec2Model ----
(***************************************************************************)
(* queuectl: a SQLite-backed job queue.  The store is one table of job     *)
(* rows shared by independent processes; every process opens its own       *)
(* JobStorage (its own threading.Lock, its own connections), so the only   *)
(* thing processes share is the table.  Each action below is one SQL       *)
(* statement (or one run of statements under a single implicit             *)
(* transaction) together with the Python around it.                        *)
(*                                                                         *)
(* Time is the wall clock in whole seconds.  At that resolution every      *)
(* timestamp string written by datetime.utcnow().isoformat() + "Z" has the *)
(* same fixed width, so the lexicographic order SQLite applies to the TEXT *)
(* columns is the numeric order used here.                                 *)
(***************************************************************************)
EXTENDS Integers, Sequences, FiniteSets, TLC

VARIABLES
    jobs,       \* the jobs table: a function from the stored ids to rows
    now,        \* the wall clock, in seconds
    pc,         \* per process: where it is
    mutex,      \* per process: its JobStorage._lock is held
    cand,       \* per process: the row get_next_job selected (job = _row_to_job(row))
    gnj_now,    \* per process: the `now` get_next_job computed on entry
    arg,        \* per process: the job_id argument of the running lock_job
    held,       \* per process: the Job object a worker is processing
    cli,        \* the command-line invocation in progress and what it printed
    running,    \* per process: Worker.running
    ran,        \* per process: whether the command of the cycle in progress succeeded
    pool        \* the supervisor's world: PID file, live worker processes, last call

vars == <<jobs, now, pc, mutex, cand, gnj_now, arg, held, cli, running, ran, pool>>

-----------------------------------------------------------------------------
(* Bounds of the model *)

MaxTicks == 1          \* how many times the clock advances
MaxRetriesIn == 2      \* the largest max_retries a client submits
MaxBase == 2           \* the largest backoff_base configured
MaxAttempts == 3       \* failures are explored until attempts reaches this
MaxPids == 3           \* how many worker processes are ever spawned
MaxCount == 2          \* the largest --count given to worker start

(* Program constants *)

LEASE_TIMEOUT == 300           \* storage.py: age < 300
DEFAULT_BACKOFF_BASE == 2      \* config.py DEFAULT_CONFIG
DEFAULT_MAX_RETRIES == 3       \* config.py DEFAULT_CONFIG

Procs == {"w1", "w2"}
JobIds == {"j1"}
JobStates == {"pending", "processing", "completed", "failed", "dead"}
Outcomes == {"ok", "nonzero", "timeout", "exception"}
BackoffBases == 0..MaxBase
EnqMaxRetries == {0, MaxRetriesIn}

NoWorker == "none"     \* SQL NULL in locked_by
NoTime == -1           \* SQL NULL in a timestamp column
NoMsg == "none"        \* SQL NULL in error_message
NoId == "none"
NoOutcome == "none"    \* no command has been run in this cycle

(* The clock advances by the default backoff delay or by the lease timeout, *)
(* so that a scheduled retry comes due and a lease goes stale; MaxTicks     *)
(* counts the advances.                                                     *)
TickSteps == {DEFAULT_BACKOFF_BASE, LEASE_TIMEOUT}
TicksTaken == (now \div LEASE_TIMEOUT) + ((now % LEASE_TIMEOUT) \div DEFAULT_BACKOFF_BASE)

-----------------------------------------------------------------------------
(* job.py: the Job object and its state machine *)

NewJob(id, command, state, attempts, max_retries, t) ==
    [id |-> id, command |-> command, state |-> state, attempts |-> attempts,
     max_retries |-> max_retries, created_at |-> t, error_message |-> NoMsg,
     next_retry_at |-> NoTime, locked_by |-> NoWorker, locked_at |-> NoTime]

NoJob == NewJob(NoId, "", "pending", 0, 0, NoTime)

\* --command not given, "command" absent from the JSON (from_dict's default)
NoCommand == ""

\* no submission
NoSub == [path |-> "none", parses |-> TRUE, id |-> NoId, command |-> NoCommand,
          state |-> "pending", max_retries |-> 0]

\* no command-line invocation is in progress
NoCli == [op |-> "none", id |-> NoId, job |-> NoJob, out |-> "none", sub |-> NoSub]

MarkCompleted(job) ==
    [job EXCEPT !.state = "completed", !.error_message = NoMsg]

MarkFailed(job, msg) ==
    [job EXCEPT !.attempts = @ + 1, !.state = "failed", !.error_message = msg]

MarkDead(job, msg) ==
    [job EXCEPT !.state = "dead", !.error_message = msg]

\* should_retry with the comparison off by one
ShouldRetry_OffByOne(job) ==
    IF job.state = "completed" THEN FALSE
    ELSE IF job.attempts > job.max_retries THEN FALSE
    ELSE TRUE

ShouldRetry(job) ==
    IF job.state = "completed" THEN FALSE
    ELSE IF job.attempts >= job.max_retries THEN FALSE
    ELSE TRUE

RECURSIVE Pow(_, _)
Pow(b, n) == IF n <= 0 THEN 1 ELSE b * Pow(b, n - 1)

CalculateRetryDelay(job, backoff_base) == Pow(backoff_base, job.attempts)

SetNextRetryTime(job, backoff_base, t) ==
    [job EXCEPT !.next_retry_at = t + CalculateRetryDelay(job, backoff_base)]

-----------------------------------------------------------------------------
(* storage.py: the statements *)

Stored == DOMAIN jobs

\* the age test with the boundary on the wrong side
LeaseFresh_Inclusive(locked_at, t) == t - locked_at <= LEASE_TIMEOUT

\* lock_job line 164: a lease is fresh while its age is under the timeout
LeaseFresh(locked_at, t) == t - locked_at < LEASE_TIMEOUT

\* lock_job lines 151-165: the call gives up (returns False)
LockRefused(j, t) ==
    /\ j \in Stored
    /\ jobs[j].locked_by # NoWorker
    /\ jobs[j].locked_at # NoTime
    /\ LeaseFresh(jobs[j].locked_at, t)

\* the INSERT without its next_retry_at column
RowOf_NoRetryTime(job) ==
    [job EXCEPT !.next_retry_at = NoTime, !.locked_by = NoWorker, !.locked_at = NoTime]

\* add_job lines 70-79: the INSERT names nine columns and takes them from the
\* Job object; locked_by and locked_at are not among them and get NULL
RowOf(job) ==
    [job EXCEPT !.locked_by = NoWorker, !.locked_at = NoTime]

\* id is the PRIMARY KEY (line 30): the INSERT of a stored id raises
\* sqlite3.IntegrityError
AddJobRaises(job) == job.id \in Stored

\* an add_job that replaces the row of a stored id
AddJob_Replace(job) == (job.id :> RowOf(job)) @@ jobs

\* add_job: the table after the call
AddJob(job) ==
    IF AddJobRaises(job) THEN jobs ELSE (job.id :> RowOf(job)) @@ jobs

\* _row_to_job lines 312-325: the Job object built from a row
RowToJob(r) ==
    [id |-> r.id, command |-> r.command, state |-> r.state, attempts |-> r.attempts,
     max_retries |-> r.max_retries, created_at |-> r.created_at,
     error_message |-> r.error_message, next_retry_at |-> r.next_retry_at,
     locked_by |-> r.locked_by, locked_at |-> r.locked_at]

\* update_job: every column but id and created_at is overwritten
UpdateJob(job) ==
    IF job.id \in Stored
    THEN [jobs EXCEPT ![job.id] = [job EXCEPT !.created_at = jobs[job.id].created_at]]
    ELSE jobs

\* an unlock_job that clears locked_by alone
UnlockJob_KeepsTime(j) ==
    IF j \in Stored
    THEN [jobs EXCEPT ![j].locked_by = NoWorker]
    ELSE jobs

\* unlock_job
UnlockJob(j) ==
    IF j \in Stored
    THEN [jobs EXCEPT ![j].locked_by = NoWorker, ![j].locked_at = NoTime]
    ELSE jobs

Unleased(r) == r.locked_by = NoWorker \/ r.locked_at = NoTime

\* ORDER BY created_at ASC LIMIT 1: SQLite returns one of the earliest rows
Earliest(S) == {j \in S : \A k \in S : jobs[j].created_at <= jobs[k].created_at}

\* get_next_job lines 216-221
PendingCandidates == Earliest({j \in Stored : jobs[j].state = "pending" /\ Unleased(jobs[j])})

\* the FAILED query without its next_retry_at condition
RetryReady_NoBackoff(r, t) ==
    /\ r.state = "failed"
    /\ r.attempts < r.max_retries
    /\ Unleased(r)

\* get_next_job lines 229-236 (WHERE)
RetryReady(r, t) ==
    /\ r.state = "failed"
    /\ r.attempts < r.max_retries
    /\ (r.next_retry_at = NoTime \/ r.next_retry_at <= t)
    /\ Unleased(r)

\* ORDER BY next_retry_at ASC, created_at ASC: NULL sorts first in SQLite
RetryBefore(a, b) ==
    \/ a.next_retry_at < b.next_retry_at
    \/ a.next_retry_at = b.next_retry_at /\ a.created_at <= b.created_at

FailedCandidates(t) ==
    LET S == {j \in Stored : RetryReady(jobs[j], t)}
    IN  {j \in S : \A k \in S : RetryBefore(jobs[j], jobs[k])}

\* lock_job line 143 entered with the instance's non-reentrant Lock
CanEnterLock(p) == ~mutex[p]

-----------------------------------------------------------------------------
(* worker.py WorkerManager, as the command line uses it: every invocation  *)
(* builds a fresh manager, so self.workers is empty when stop_workers runs  *)
(* and the recorded processes are those of the PID file.                   *)

Users == {"user", "root"}      \* who runs the command
Pids == 1..MaxPids

\* no call yet
NoCall == [op |-> "none", by |-> "user", n |-> 0, old |-> {}, new |-> {}, raised |-> FALSE]

\* no PID file, no worker process
NoPool == [pidfile |-> {}, owner |-> << >>, spawned |-> 0, last |-> NoCall]

\* the worker processes that are alive
Live == DOMAIN pool.owner

\* lines 226-232 for one recorded pid: what os.kill meets
KillStatus(u, pid) ==
    IF pid \notin Live THEN "ProcessLookupError"
    ELSE IF u # "root" /\ pool.owner[pid] # u THEN "PermissionError"
    ELSE "killed"

\* the handlers without the one for PermissionError and the catch-all
Handled_LookupOnly(status) == status \in {"killed", "ProcessLookupError"}

\* lines 235-241: every status is handled inside the loop
Handled(status) == status \in {"killed", "ProcessLookupError", "PermissionError"}

\* a stop that signals nobody
Survivors_NoStop(u) == Live

\* lines 214-241: the processes still alive when stop_workers is through:
\* SIGTERM, a second's grace, then SIGKILL end every recorded process the
\* caller may signal
Survivors(u) == {pid \in Live : ~(pid \in pool.pidfile /\ KillStatus(u, pid) = "killed")}

\* stop_workers raises out of its loop
StopRaises(u) == \E pid \in pool.pidfile : ~Handled(KillStatus(u, pid))

\* get_active_worker_count lines 253-275, run by u: the recorded pids that
\* os.kill(pid, 0) accepts
ActiveCount(u) ==
    Cardinality({pid \in pool.pidfile : pid \in Live /\ (u = "root" \/ pool.owner[pid] = u)})

\* stop_workers (lines 196-245): `queuectl worker stop` run by u
Pool_Stop(u) ==
    /\ pool' = [pidfile |-> IF StopRaises(u) THEN pool.pidfile ELSE {},
                owner |-> [pid \in Survivors(u) |-> pool.owner[pid]],
                spawned |-> pool.spawned,
                last |-> [op |-> "stop", by |-> u, n |-> 0, old |-> pool.pidfile,
                          new |-> {}, raised |-> StopRaises(u)]]
    /\ UNCHANGED <<jobs, now, pc, mutex, cand, gnj_now, arg, held, cli, running, ran>>

\* start_workers (lines 169-194): `queuectl worker start --count n` run by
\* u: stop what is recorded, spawn n processes, save their pids
Pool_Start(u, n) ==
    /\ pool.spawned + n <= MaxPids
    /\ ~StopRaises(u)
    /\ LET new == (pool.spawned + 1)..(pool.spawned + n)
       IN  pool' = [pidfile |-> new,
                    owner |-> [pid \in Survivors(u) \cup new |->
                                   IF pid \in new THEN u ELSE pool.owner[pid]],
                    spawned |-> pool.spawned + n,
                    last |-> [op |-> "start", by |-> u, n |-> n, old |-> pool.pidfile,
                              new |-> new, raised |-> FALSE]]
    /\ UNCHANGED <<jobs, now, pc, mutex, cand, gnj_now, arg, held, cli, running, ran>>

\* a worker process ends by itself (its loop returned, or it was killed from
\* outside the pool)
Pool_WorkerDies(pid) ==
    /\ pid \in Live
    /\ pool' = [pool EXCEPT !.owner = [q \in Live \ {pid} |-> pool.owner[q]]]
    /\ UNCHANGED <<jobs, now, pc, mutex, cand, gnj_now, arg, held, cli, running, ran>>

-----------------------------------------------------------------------------
Init ==
    /\ jobs = << >>
    /\ now = 0
    /\ pc = [p \in Procs |-> "idle"]
    /\ mutex = [p \in Procs |-> FALSE]
    /\ cand = [p \in Procs |-> NoJob]
    /\ gnj_now = [p \in Procs |-> NoTime]
    /\ arg = [p \in Procs |-> NoId]
    /\ held = [p \in Procs |-> NoJob]
    /\ cli = NoCli
    /\ running = [p \in Procs |-> TRUE]
    /\ ran = [p \in Procs |-> NoOutcome]
    /\ pool = NoPool

Tick(d) ==
    /\ TicksTaken < MaxTicks
    /\ now' = now + d
    /\ UNCHANGED <<jobs, pc, mutex, cand, gnj_now, arg, held, cli, running, ran, pool>>

\* cli.py enqueue, option path or JSON with the default state and attempts
Enqueue(j, max_retries) ==
    /\ j \notin Stored
    /\ jobs' = (j :> NewJob(j, "cmd", "pending", 0, max_retries, now)) @@ jobs
    /\ UNCHANGED <<now, pc, mutex, cand, gnj_now, arg, held, cli, running, ran, pool>>

\* cli.py enqueue, JSON path: Job.from_dict takes state, attempts and
\* max_retries from the submission, add_job inserts them as given
EnqueueJson(j, state, attempts, max_retries) ==
    /\ j \notin Stored
    /\ jobs' = (j :> NewJob(j, "cmd", state, attempts, max_retries, now)) @@ jobs
    /\ UNCHANGED <<now, pc, mutex, cand, gnj_now, arg, held, cli, running, ran, pool>>

-----------------------------------------------------------------------------
(* storage.py get_next_job, as a worker's loop calls it (worker.py line 74) *)

\* worker.py line 72: the loop goes on while self.running.
\* storage.py lines 210-226: take the instance lock, compute now, run the PENDING query.
\* A row found is handed to lock_job (line 225) while the lock is still held.
GetNextJob_Begin(p) ==
    /\ pc[p] = "idle"
    /\ running[p]
    /\ CanEnterLock(p)
    /\ mutex' = [mutex EXCEPT ![p] = TRUE]
    /\ IF PendingCandidates # {}
       THEN \E j \in PendingCandidates :
                /\ cand' = [cand EXCEPT ![p] = jobs[j]]
                /\ pc' = [pc EXCEPT ![p] = "gnj_lock"]
                /\ UNCHANGED gnj_now
       ELSE /\ pc' = [pc EXCEPT ![p] = "gnj_failed"]
            /\ gnj_now' = [gnj_now EXCEPT ![p] = now]
            /\ UNCHANGED cand
    /\ UNCHANGED <<jobs, now, arg, held, cli, running, ran, pool>>

\* lines 228-245: the FAILED query; without a row the call returns None, the
\* with-block releases the lock and the worker sleeps (worker.py lines 76-79).
GetNextJob_SelectFailed(p) ==
    /\ pc[p] = "gnj_failed"
    /\ gnj_now' = [gnj_now EXCEPT ![p] = NoTime]
    /\ IF FailedCandidates(gnj_now[p]) # {}
       THEN \E j \in FailedCandidates(gnj_now[p]) :
                /\ cand' = [cand EXCEPT ![p] = jobs[j]]
                /\ pc' = [pc EXCEPT ![p] = "gnj_lock"]
                /\ UNCHANGED mutex
       ELSE /\ pc' = [pc EXCEPT ![p] = "sleep"]
            /\ mutex' = [mutex EXCEPT ![p] = FALSE]
            /\ UNCHANGED cand
    /\ UNCHANGED <<jobs, now, arg, held, cli, running, ran, pool>>

\* worker.py lines 78-79: the sleep is over, the loop goes round
Worker_Continue(p) ==
    /\ pc[p] = "sleep"
    /\ pc' = [pc EXCEPT ![p] = "idle"]
    /\ UNCHANGED <<jobs, now, mutex, cand, gnj_now, arg, held, cli, running, ran, pool>>

\* A process at "gnj_lock" is inside lock_job line 143, waiting for the
\* threading.Lock its own get_next_job holds: CanEnterLock is false and stays
\* false, so no step of that process is enabled again.
Blocked(p) == pc[p] = "gnj_lock" /\ ~CanEnterLock(p)

-----------------------------------------------------------------------------
(* storage.py lock_job, called on its own *)

\* lines 143-168: SELECT the lease and judge its age.  A worker starts a
\* claim only from the top of its loop, while self.running (worker.py line 72).
LockJob_Check(p, j) ==
    /\ pc[p] = "idle"
    /\ running[p]
    /\ CanEnterLock(p)
    /\ arg' = [arg EXCEPT ![p] = j]
    /\ IF LockRefused(j, now)
       THEN /\ pc' = [pc EXCEPT ![p] = "refused"]
            /\ UNCHANGED mutex
       ELSE /\ pc' = [pc EXCEPT ![p] = "lock_update"]
            /\ mutex' = [mutex EXCEPT ![p] = TRUE]
    /\ UNCHANGED <<jobs, now, cand, gnj_now, held, cli, running, ran, pool>>

\* lines 170-181: UPDATE, commit, report whether a row changed
LockJob_Update(p) ==
    /\ pc[p] = "lock_update"
    /\ mutex' = [mutex EXCEPT ![p] = FALSE]
    /\ IF arg[p] \in Stored
       THEN /\ jobs' = [jobs EXCEPT ![arg[p]].locked_by = p,
                                    ![arg[p]].locked_at = now,
                                    ![arg[p]].state = "processing"]
            /\ pc' = [pc EXCEPT ![p] = "locked"]
       ELSE /\ pc' = [pc EXCEPT ![p] = "refused"]
            /\ UNCHANGED jobs
    /\ UNCHANGED <<now, cand, gnj_now, arg, held, cli, running, ran, pool>>

\* the caller has been told False
LockJob_ReturnFalse(p) ==
    /\ pc[p] = "refused"
    /\ pc' = [pc EXCEPT ![p] = "idle"]
    /\ arg' = [arg EXCEPT ![p] = NoId]
    /\ UNCHANGED <<jobs, now, mutex, cand, gnj_now, held, cli, running, ran, pool>>

\* the caller has been told True and reads the job (the sequence of lines 225-226)
GetJob(p) ==
    /\ pc[p] = "locked"
    /\ held' = [held EXCEPT ![p] = jobs[arg[p]]]
    /\ arg' = [arg EXCEPT ![p] = NoId]
    /\ pc' = [pc EXCEPT ![p] = "exec"]
    /\ UNCHANGED <<jobs, now, mutex, cand, gnj_now, cli, running, ran, pool>>

-----------------------------------------------------------------------------
(* worker.py _process_job *)

\* lines 117, 129, 140: the text kept for a failure (command output or a
\* fixed message); its content plays no part in any decision
ErrorText(outcome) == "failure"

\* line 111 and the two handlers: the command either exited with code 0 or
\* it failed (non-zero exit, timeout, exception)
CommandResult(outcome) == IF outcome = "ok" THEN "ok" ELSE "failed"

\* lines 111-148: the Job object after the outcome has been classified
ApplyOutcome(job, outcome, backoff_base, t) ==
    IF outcome = "ok"
    THEN MarkCompleted(job)
    ELSE LET f == MarkFailed(job, ErrorText(outcome))
         IN  IF ShouldRetry(f)
             THEN SetNextRetryTime(f, backoff_base, t)
             ELSE MarkDead(f, "exceeded")

\* lines 101-148: the command has ended; record the outcome with update_job
ProcessJob_Report(p, outcome, backoff_base) ==
    /\ pc[p] = "exec"
    /\ outcome # "ok" => held[p].attempts < MaxAttempts
    /\ held' = [held EXCEPT ![p] = ApplyOutcome(held[p], outcome, backoff_base, now)]
    /\ jobs' = UpdateJob(held'[p])
    /\ pc' = [pc EXCEPT ![p] = "unlock"]
    /\ UNCHANGED <<now, mutex, cand, gnj_now, arg, cli, running, pool>>
    /\ ran' = [ran EXCEPT ![p] = CommandResult(outcome)]

\* lines 150-152: finally, unlock_job
ProcessJob_Unlock(p) ==
    /\ pc[p] = "unlock"
    /\ jobs' = UnlockJob(held[p].id)
    /\ held' = [held EXCEPT ![p] = NoJob]
    /\ pc' = [pc EXCEPT ![p] = "idle"]
    /\ UNCHANGED <<now, mutex, cand, gnj_now, arg, cli, running, pool>>
    /\ ran' = [ran EXCEPT ![p] = NoOutcome]

\* lines 139-148 entered because update_job raised inside the try block: the
\* object, already marked by the branch that was reporting, is marked failed
\* once more and judged again
RecoverFromError(job, backoff_base, t) ==
    LET f == MarkFailed(job, ErrorText("exception"))
    IN  IF ShouldRetry(f)
        THEN SetNextRetryTime(f, backoff_base, t)
        ELSE MarkDead(f, "exceeded")

\* update_job raises while the outcome is reported (sqlite3 error).  Raised
\* in the try block (exit code 0 or not), the error is caught by
\* `except Exception` and the report is tried a second time; raised in a
\* handler, or the second time, it leaves _process_job through finally.
ProcessJob_ReportFails(p, outcome, backoff_base, again) ==
    /\ pc[p] = "exec"
    /\ held[p].attempts < MaxAttempts
    /\ LET marked == ApplyOutcome(held[p], outcome, backoff_base, now)
           caught == outcome \in {"ok", "nonzero"}
           final == IF caught THEN RecoverFromError(marked, backoff_base, now) ELSE marked
       IN  /\ held' = [held EXCEPT ![p] = final]
           /\ IF caught /\ ~again
              THEN /\ jobs' = UpdateJob(final)
                   /\ pc' = [pc EXCEPT ![p] = "unlock"]
              ELSE /\ UNCHANGED jobs
                   /\ pc' = [pc EXCEPT ![p] = "unlock_raise"]
    /\ UNCHANGED <<now, mutex, cand, gnj_now, arg, cli, running, pool>>
    /\ ran' = [ran EXCEPT ![p] = CommandResult(outcome)]

\* lines 150-152 with the error still to be raised: finally, unlock_job
ProcessJob_UnlockRaise(p) ==
    /\ pc[p] = "unlock_raise"
    /\ jobs' = UnlockJob(held[p].id)
    /\ pc' = [pc EXCEPT ![p] = "run_except"]
    /\ UNCHANGED <<now, mutex, cand, gnj_now, arg, held, cli, running, ran, pool>>

\* Worker.run lines 87-92: the error reaches the loop, which unlocks
\* current_job once more, forgets it and sleeps
Run_Except(p) ==
    /\ pc[p] = "run_except"
    /\ jobs' = UnlockJob(held[p].id)
    /\ held' = [held EXCEPT ![p] = NoJob]
    /\ pc' = [pc EXCEPT ![p] = "sleep"]
    /\ UNCHANGED <<now, mutex, cand, gnj_now, arg, cli, running, pool>>
    /\ ran' = [ran EXCEPT ![p] = NoOutcome]

\* Worker.run line 90 raises: the unlock_job of the loop's handler is itself
\* a store operation, and nothing catches what it raises inside the handler;
\* the error leaves run() and the worker process ends
Run_ExceptRaises(p) ==
    /\ pc[p] = "run_except"
    /\ pc' = [pc EXCEPT ![p] = "raised"]
    /\ held' = [held EXCEPT ![p] = NoJob]
    /\ ran' = [ran EXCEPT ![p] = NoOutcome]
    /\ UNCHANGED <<jobs, now, mutex, cand, gnj_now, arg, cli, running, pool>>

\* Worker.current_job is set (worker.py lines 81-83 and the handler of 87-91)
HasCurrentJob(p) == pc[p] \in {"exec", "unlock", "unlock_raise", "run_except"}

\* SIGTERM or SIGINT reaches the worker (worker.py lines 62-65).  The handler
\* runs in the worker's only thread, between two of its instructions: it
\* clears self.running and, with a current_job, calls unlock_job.  Delivered
\* while that thread is inside the store operation it was about to finish
\* (inside = TRUE), the handler's unlock_job waits at storage.py line 189 for
\* the lock the interrupted operation holds.
Signal(p, inside) ==
    /\ running[p]
    /\ pc[p] \notin {"dead", "stopped"}
    /\ running' = [running EXCEPT ![p] = FALSE]
    /\ IF HasCurrentJob(p)
       THEN IF inside
            THEN /\ pc' = [pc EXCEPT ![p] = "sig_blocked"]
                 /\ mutex' = [mutex EXCEPT ![p] = TRUE]
                 /\ UNCHANGED jobs
            ELSE /\ jobs' = UnlockJob(held[p].id)
                 /\ UNCHANGED <<pc, mutex>>
       ELSE /\ ~inside
            /\ UNCHANGED <<jobs, pc, mutex>>
    /\ UNCHANGED <<now, cand, gnj_now, arg, held, cli, ran, pool>>

\* worker.py line 72: self.running is false at the top of the loop; run returns
Worker_Exit(p) ==
    /\ pc[p] = "idle"
    /\ ~running[p]
    /\ pc' = [pc EXCEPT ![p] = "stopped"]
    /\ UNCHANGED <<jobs, now, mutex, cand, gnj_now, arg, held, cli, running, ran, pool>>

\* The process is killed (worker.py line 232, SIGKILL) or dies with a job in
\* hand; what it had in memory is gone.
Crash(p) ==
    /\ pc[p] \in {"locked", "exec", "unlock"}
    /\ pc' = [pc EXCEPT ![p] = "dead"]
    /\ held' = [held EXCEPT ![p] = NoJob]
    /\ arg' = [arg EXCEPT ![p] = NoId]
    /\ UNCHANGED <<jobs, now, mutex, cand, gnj_now, cli, running, pool>>
    /\ ran' = [ran EXCEPT ![p] = NoOutcome]

\* unlock_job called on its own, with any id: the UPDATE of lines 192-195
UnlockJob_Call(p, j) ==
    /\ pc[p] = "idle"
    /\ CanEnterLock(p)
    /\ jobs' = UnlockJob(j)
    /\ arg' = [arg EXCEPT ![p] = j]
    /\ pc' = [pc EXCEPT ![p] = "unlocked"]
    /\ UNCHANGED <<now, mutex, cand, gnj_now, held, cli, running, ran, pool>>

\* the call has returned
UnlockJob_Return(p) ==
    /\ pc[p] = "unlocked"
    /\ arg' = [arg EXCEPT ![p] = NoId]
    /\ pc' = [pc EXCEPT ![p] = "idle"]
    /\ UNCHANGED <<jobs, now, mutex, cand, gnj_now, held, cli, running, ran, pool>>

\* stop_workers lines 226-232: SIGTERM has been sent (Signal), the second of
\* grace is over, os.kill(pid, 0) finds the process and SIGKILL ends it
Stop_Kill(p) ==
    /\ ~running[p]
    /\ pc[p] \notin {"dead", "stopped"}
    /\ pc' = [pc EXCEPT ![p] = "dead"]
    /\ held' = [held EXCEPT ![p] = NoJob]
    /\ arg' = [arg EXCEPT ![p] = NoId]
    /\ ran' = [ran EXCEPT ![p] = NoOutcome]
    /\ UNCHANGED <<jobs, now, mutex, cand, gnj_now, cli, running, pool>>

-----------------------------------------------------------------------------
(* cli.py enqueue as a command: what it stores and what it prints *)

\* job.py from_dict: the Job object of a JSON submission; state, attempts,
\* max_retries, error_message and next_retry_at are the submission's
FromDict(j, state, attempts, max_retries, msg, retry_at, t) ==
    [NewJob(j, "cmd", state, attempts, max_retries, t)
        EXCEPT !.error_message = msg, !.next_retry_at = retry_at]

\* lines 41-68: build the job, add_job, print the id or the error
Cli_Enqueue(job) ==
    /\ cli.op = "none"
    /\ jobs' = AddJob(job)
    /\ cli' = [op |-> "exit", id |-> job.id, job |-> job,
               out |-> IF AddJobRaises(job) THEN "error" ELSE "enqueued", sub |-> NoSub]
    /\ UNCHANGED <<now, pc, mutex, cand, gnj_now, arg, held, running, ran, pool>>

\* what `queuectl enqueue` is given: a JSON text (which parses or not, and
\* then has a state, a command or none, a max_retries) or the options
JsonSubmissions ==
    [path : {"json"}, parses : BOOLEAN, id : JobIds, command : {"cmd", NoCommand},
     state : {"pending", "dead", "bogus"}, max_retries : EnqMaxRetries]

OptionSubmissions ==
    [path : {"options"}, parses : {TRUE}, id : JobIds, command : {"cmd", NoCommand},
     state : {"pending"}, max_retries : EnqMaxRetries]

Submissions == JsonSubmissions \cup OptionSubmissions

\* lines 42-56: json.loads raises on a text that is no JSON; Job.__init__
\* (job.py line 47) raises ValueError on an unknown state; the options path
\* tests `not command`; from_dict gives an absent command the default ""
SubmitVerdict(sub) ==
    IF sub.path = "json"
    THEN IF ~sub.parses THEN "JSONDecodeError"
         ELSE IF sub.state \notin JobStates THEN "ValueError"
         ELSE "job"
    ELSE IF sub.command = NoCommand THEN "no_command"
         ELSE "job"

\* lines 44-56: the Job built from the submission; on the options path
\* `max_retries or config.get("max_retries", 3)` replaces 0 by the default
SubmittedJob(sub, t) ==
    IF sub.path = "json"
    THEN NewJob(sub.id, sub.command, sub.state, 0, sub.max_retries, t)
    ELSE NewJob(sub.id, sub.command, "pending", 0,
                IF sub.max_retries = 0 THEN DEFAULT_MAX_RETRIES ELSE sub.max_retries, t)

\* lines 41-68 from the submission on: errors before the Job is built exit
\* with a message; otherwise add_job, then the id or the error
Cli_Submit(sub) ==
    /\ cli.op = "none"
    /\ IF SubmitVerdict(sub) = "job"
       THEN LET job == SubmittedJob(sub, now)
            IN  /\ jobs' = AddJob(job)
                /\ cli' = [op |-> "exit", id |-> job.id, job |-> job,
                           out |-> IF AddJobRaises(job) THEN "error" ELSE "enqueued",
                           sub |-> sub]
       ELSE /\ jobs' = jobs
            /\ cli' = [op |-> "exit", id |-> sub.id, job |-> NoJob, out |-> "error",
                       sub |-> sub]
    /\ UNCHANGED <<now, pc, mutex, cand, gnj_now, arg, held, running, ran, pool>>

-----------------------------------------------------------------------------
(* cli.py dlq retry *)

\* the verdict without the test of the state
RetryVerdict_AnyState(j) ==
    IF j \notin Stored THEN "not_found"
    ELSE "retry"

\* lines 217-225: what the command makes of the job it read
RetryVerdict(j) ==
    IF j \notin Stored THEN "not_found"
    ELSE IF jobs[j].state # "dead" THEN "not_in_dlq"
    ELSE "retry"

\* lines 228-232: the Job object is reset; its other attributes, the lease
\* attributes _row_to_job gave it among them, stay as they were read
RetryReset(job) ==
    [job EXCEPT !.state = "pending", !.attempts = 0,
                !.error_message = NoMsg, !.next_retry_at = NoTime]

\* lines 213-225: get_job, then the two error exits
Retry_Get(j) ==
    /\ cli.op = "none"
    /\ cli' = IF RetryVerdict(j) = "retry"
              THEN [op |-> "retry", id |-> j, job |-> jobs[j], out |-> "none", sub |-> NoSub]
              ELSE [op |-> "exit", id |-> j, job |-> NoJob, out |-> RetryVerdict(j),
                    sub |-> NoSub]
    /\ UNCHANGED <<jobs, now, pc, mutex, cand, gnj_now, arg, held, running, ran, pool>>

\* lines 227-235: reset the object and write it back with update_job
Retry_Update ==
    /\ cli.op = "retry"
    /\ jobs' = UpdateJob(RetryReset(cli.job))
    /\ cli' = [op |-> "exit", id |-> cli.id, job |-> NoJob, out |-> "moved", sub |-> NoSub]
    /\ UNCHANGED <<now, pc, mutex, cand, gnj_now, arg, held, running, ran, pool>>

\* the command has printed its line and the process exits
Cli_Exit ==
    /\ cli.op = "exit"
    /\ cli' = NoCli
    /\ UNCHANGED <<jobs, now, pc, mutex, cand, gnj_now, arg, held, running, ran, pool>>

-----------------------------------------------------------------------------
Next ==
    \/ \E d \in TickSteps : Tick(d)
    \/ \E j \in JobIds, m \in EnqMaxRetries : Enqueue(j, m)
    \/ \E p \in Procs : GetNextJob_Begin(p)
    \/ \E p \in Procs : GetNextJob_SelectFailed(p)
    \/ \E p \in Procs : Worker_Continue(p)
    \/ \E p \in Procs, j \in JobIds : LockJob_Check(p, j)
    \/ \E p \in Procs : LockJob_Update(p)
    \/ \E p \in Procs : LockJob_ReturnFalse(p)
    \/ \E p \in Procs : GetJob(p)
    \/ \E p \in Procs, o \in Outcomes, b \in {DEFAULT_BACKOFF_BASE} : ProcessJob_Report(p, o, b)
    \/ \E p \in Procs : ProcessJob_Unlock(p)
    \/ \E p \in Procs : Crash(p)

Spec == Init /\ [][Next]_vars

\* The program as it runs from the command line: enqueue, and worker loops
\* (worker.py lines 72-92) that poll get_next_job.  Each live worker keeps
\* taking the steps of its loop and the clock keeps advancing.
WorkerLoop(p) ==
    \/ GetNextJob_Begin(p)
    \/ GetNextJob_SelectFailed(p)
    \/ Worker_Continue(p)

NextLoop ==
    \/ \E d \in TickSteps : Tick(d)
    \/ \E j \in JobIds, m \in EnqMaxRetries : Enqueue(j, m)
    \/ \E p \in Procs : WorkerLoop(p)

FairSpec ==
    /\ Init
    /\ [][NextLoop]_vars
    /\ \A p \in Procs : WF_vars(WorkerLoop(p))
    /\ WF_vars(\E d \in TickSteps : Tick(d))

\* Submissions that carry their own state and attempts, then the storage
\* operations on what they stored.
NextJson ==
    \/ \E j \in JobIds, st \in JobStates, a \in 0..MaxAttempts, m \in EnqMaxRetries :
           EnqueueJson(j, st, a, m)
    \/ \E p \in Procs : GetNextJob_Begin(p)
    \/ \E p \in Procs : GetNextJob_SelectFailed(p)
    \/ \E p \in Procs : Worker_Continue(p)
    \/ \E p \in Procs, j \in JobIds : LockJob_Check(p, j)
    \/ \E p \in Procs : LockJob_Update(p)
    \/ \E p \in Procs : LockJob_ReturnFalse(p)
    \/ \E p \in Procs : GetJob(p)
    \/ \E p \in Procs, o \in Outcomes : ProcessJob_Report(p, o, DEFAULT_BACKOFF_BASE)
    \/ \E p \in Procs : ProcessJob_Unlock(p)

SpecJson == Init /\ [][NextJson]_vars

\* One worker failing a job with the default max_retries again and again,
\* under every configured backoff_base.
BackoffProc == "w1"

NextBackoff ==
    \/ \E d \in TickSteps : Tick(d)
    \/ \E j \in JobIds : Enqueue(j, DEFAULT_MAX_RETRIES)
    \/ \E j \in JobIds : LockJob_Check(BackoffProc, j)
    \/ LockJob_Update(BackoffProc)
    \/ LockJob_ReturnFalse(BackoffProc)
    \/ GetJob(BackoffProc)
    \/ \E o \in Outcomes, b \in BackoffBases : ProcessJob_Report(BackoffProc, o, b)
    \/ ProcessJob_Unlock(BackoffProc)

SpecBackoff == Init /\ [][NextBackoff]_vars

\* The dead letter queue: jobs that die at their first failure, one worker
\* that takes them with lock_job, one that polls get_next_job, and the
\* dlq retry command.
DlqProc == "w1"
DlqPoller == "w2"

NextDlq ==
    \/ \E d \in TickSteps : Tick(d)
    \/ \E j \in JobIds, m \in EnqMaxRetries : Enqueue(j, m)
    \/ \E j \in JobIds : LockJob_Check(DlqProc, j)
    \/ LockJob_Update(DlqProc)
    \/ LockJob_ReturnFalse(DlqProc)
    \/ GetJob(DlqProc)
    \/ \E o \in Outcomes : ProcessJob_Report(DlqProc, o, DEFAULT_BACKOFF_BASE)
    \/ ProcessJob_Unlock(DlqProc)
    \/ GetNextJob_Begin(DlqPoller)
    \/ GetNextJob_SelectFailed(DlqPoller)
    \/ Worker_Continue(DlqPoller)
    \/ \E j \in JobIds : Retry_Get(j)
    \/ Retry_Update
    \/ Cli_Exit

SpecDlq == Init /\ [][NextDlq]_vars

\* Worker loops that receive termination signals.  WorkerStep is every step
\* a worker takes by itself; a live worker keeps taking them.
WorkerStep(p) ==
    \/ GetNextJob_Begin(p)
    \/ GetNextJob_SelectFailed(p)
    \/ Worker_Continue(p)
    \/ \E j \in JobIds : LockJob_Check(p, j)
    \/ LockJob_Update(p)
    \/ LockJob_ReturnFalse(p)
    \/ GetJob(p)
    \/ \E o \in Outcomes : ProcessJob_Report(p, o, DEFAULT_BACKOFF_BASE)
    \/ ProcessJob_Unlock(p)
    \/ Worker_Exit(p)

NextSignal ==
    \/ \E j \in JobIds, m \in EnqMaxRetries : Enqueue(j, m)
    \/ \E p \in Procs : WorkerStep(p)
    \/ \E p \in Procs, inside \in BOOLEAN : Signal(p, inside)

SpecSignal == Init /\ [][NextSignal]_vars

FairSignal ==
    /\ Init
    /\ [][NextSignal]_vars
    /\ \A p \in Procs : WF_vars(WorkerStep(p))

\* Workers whose reports can fail in the store, at one instant of the clock.
NextFaults ==
    \/ \E j \in JobIds, m \in EnqMaxRetries : Enqueue(j, m)
    \/ \E p \in Procs, j \in JobIds : LockJob_Check(p, j)
    \/ \E p \in Procs : LockJob_Update(p)
    \/ \E p \in Procs : LockJob_ReturnFalse(p)
    \/ \E p \in Procs : GetJob(p)
    \/ \E p \in Procs, o \in Outcomes : ProcessJob_Report(p, o, DEFAULT_BACKOFF_BASE)
    \/ \E p \in Procs, o \in Outcomes, again \in BOOLEAN :
           ProcessJob_ReportFails(p, o, DEFAULT_BACKOFF_BASE, again)
    \/ \E p \in Procs : ProcessJob_Unlock(p)
    \/ \E p \in Procs : ProcessJob_UnlockRaise(p)
    \/ \E p \in Procs : Run_Except(p)
    \/ \E p \in Procs : Worker_Continue(p)

SpecFaults == Init /\ [][NextFaults]_vars

\* The supervisor's commands, run by either user, and workers dying.
NextPool ==
    \/ \E u \in Users, n \in 0..MaxCount : Pool_Start(u, n)
    \/ \E u \in Users : Pool_Stop(u)
    \/ \E pid \in Pids : Pool_WorkerDies(pid)

SpecPool == Init /\ [][NextPool]_vars

\* One worker's loop against a store whose operations can raise at any call
\* of a cycle, the handler's unlock_job included.
LoopProc == "w1"

NextStoreErrors ==
    \/ \E d \in TickSteps : Tick(d)
    \/ \E j \in JobIds, m \in EnqMaxRetries : Enqueue(j, m)
    \/ GetNextJob_Begin(LoopProc)
    \/ GetNextJob_SelectFailed(LoopProc)
    \/ Worker_Continue(LoopProc)
    \/ \E j \in JobIds : LockJob_Check(LoopProc, j)
    \/ LockJob_Update(LoopProc)
    \/ LockJob_ReturnFalse(LoopProc)
    \/ GetJob(LoopProc)
    \/ \E o \in Outcomes : ProcessJob_Report(LoopProc, o, DEFAULT_BACKOFF_BASE)
    \/ \E o \in Outcomes, again \in BOOLEAN :
           ProcessJob_ReportFails(LoopProc, o, DEFAULT_BACKOFF_BASE, again)
    \/ ProcessJob_Unlock(LoopProc)
    \/ ProcessJob_UnlockRaise(LoopProc)
    \/ Run_Except(LoopProc)
    \/ Run_ExceptRaises(LoopProc)

SpecStoreErrors == Init /\ [][NextStoreErrors]_vars

\* The enqueue command with every kind of submission, against a table that
\* one worker keeps changing.
CliWorker == "w1"
SubmittedMsgs == {NoMsg, "failure"}
SubmittedRetryAt == {NoTime, DEFAULT_BACKOFF_BASE}

NextCli ==
    \/ \E d \in TickSteps : Tick(d)
    \/ \E j \in JobIds, st \in JobStates, a \in {0, MaxAttempts}, m \in EnqMaxRetries,
          e \in SubmittedMsgs, n \in SubmittedRetryAt :
           Cli_Enqueue(FromDict(j, st, a, m, e, n, now))
    \/ Cli_Exit
    \/ \E j \in JobIds : LockJob_Check(CliWorker, j)
    \/ LockJob_Update(CliWorker)
    \/ LockJob_ReturnFalse(CliWorker)
    \/ GetJob(CliWorker)
    \/ \E o \in Outcomes : ProcessJob_Report(CliWorker, o, DEFAULT_BACKOFF_BASE)
    \/ ProcessJob_Unlock(CliWorker)

SpecCli == Init /\ [][NextCli]_vars

\* p is inside a get_next_job call
InGetNextJob(p) == pc[p] \in {"gnj_failed", "gnj_lock"}

\* One worker and two jobs: the worker fails and completes jobs, so that the
\* table holds PENDING and FAILED rows of different ages, and polls
\* get_next_job.  Nothing else touches the store or moves the clock while a
\* get_next_job call is in progress.
OrderProc == "w1"
OrderIds == {"j1", "j2"}

NextOrder ==
    \/ ~InGetNextJob(OrderProc) /\ \E d \in TickSteps : Tick(d)
    \/ ~InGetNextJob(OrderProc) /\ \E j \in OrderIds : Enqueue(j, DEFAULT_MAX_RETRIES)
    \/ WorkerLoop(OrderProc)
    \/ \E j \in OrderIds : LockJob_Check(OrderProc, j)
    \/ LockJob_Update(OrderProc)
    \/ LockJob_ReturnFalse(OrderProc)
    \/ GetJob(OrderProc)
    \/ \E o \in Outcomes : ProcessJob_Report(OrderProc, o, DEFAULT_BACKOFF_BASE)
    \/ ProcessJob_Unlock(OrderProc)

SpecOrder == Init /\ [][NextOrder]_vars

FairOrder ==
    /\ Init
    /\ [][NextOrder]_vars
    /\ WF_vars(WorkerLoop(OrderProc))

\* The pool's stop reaching a worker: StopProc claims and executes jobs and
\* is sent SIGTERM while it executes one, then SIGKILL if it is still there
\* after the grace period; PollProc is another worker, polling get_next_job; the clock
\* advances.
StopProc == "w1"
PollProc == "w2"

StoppedWorkerStep ==
    \/ \E j \in JobIds : LockJob_Check(StopProc, j)
    \/ LockJob_Update(StopProc)
    \/ LockJob_ReturnFalse(StopProc)
    \/ GetJob(StopProc)
    \/ \E o \in Outcomes : ProcessJob_Report(StopProc, o, DEFAULT_BACKOFF_BASE)
    \/ ProcessJob_Unlock(StopProc)
    \/ Worker_Exit(StopProc)

NextStop ==
    \/ \E d \in TickSteps : Tick(d)
    \/ \E j \in JobIds, m \in EnqMaxRetries : Enqueue(j, m)
    \/ StoppedWorkerStep
    \/ WorkerLoop(PollProc)
    \/ \E inside \in BOOLEAN : pc[StopProc] = "exec" /\ Signal(StopProc, inside)
    \/ Stop_Kill(StopProc)

SpecStop == Init /\ [][NextStop]_vars

FairStop ==
    /\ Init
    /\ [][NextStop]_vars
    /\ WF_vars(StoppedWorkerStep)
    /\ WF_vars(WorkerLoop(PollProc))
    /\ WF_vars(\E d \in TickSteps : Tick(d))

\* unlock_job called by one process, with the id of any job or of none,
\* while a worker claims, fails and completes two jobs.
UnlockCaller == "w2"

NextUnlock ==
    \/ \E d \in TickSteps : Tick(d)
    \/ \E j \in OrderIds : Enqueue(j, DEFAULT_MAX_RETRIES)
    \/ \E j \in OrderIds : LockJob_Check(OrderProc, j)
    \/ LockJob_Update(OrderProc)
    \/ LockJob_ReturnFalse(OrderProc)
    \/ GetJob(OrderProc)
    \/ \E o \in Outcomes : ProcessJob_Report(OrderProc, o, DEFAULT_BACKOFF_BASE)
    \/ ProcessJob_Unlock(OrderProc)
    \/ \E j \in OrderIds : UnlockJob_Call(UnlockCaller, j)
    \/ UnlockJob_Return(UnlockCaller)

SpecUnlock == Init /\ [][NextUnlock]_vars

\* The whole life of a job: submissions that parse, with or without a
\* command and with either max_retries, repeated under the same id; a worker
\* that claims, reports and releases; the dlq retry command; the clock.
LifeSubmissions == {sub \in JsonSubmissions : sub.parses /\ sub.state = "pending"}

NextLife ==
    \/ \E d \in TickSteps : Tick(d)
    \/ \E sub \in LifeSubmissions : Cli_Submit(sub)
    \/ \E j \in JobIds : Retry_Get(j)
    \/ Retry_Update
    \/ Cli_Exit
    \/ \E j \in JobIds : LockJob_Check(CliWorker, j)
    \/ LockJob_Update(CliWorker)
    \/ LockJob_ReturnFalse(CliWorker)
    \/ GetJob(CliWorker)
    \/ \E o \in Outcomes : ProcessJob_Report(CliWorker, o, DEFAULT_BACKOFF_BASE)
    \/ ProcessJob_Unlock(CliWorker)

SpecLife == Init /\ [][NextLife]_vars

\* `queuectl enqueue` given every kind of submission, well-formed or not.
NextSubmit ==
    \/ \E d \in TickSteps : Tick(d)
    \/ \E sub \in Submissions : Cli_Submit(sub)
    \/ Cli_Exit

SpecSubmit == Init /\ [][NextSubmit]_vars

-----------------------------------------------------------------------------
(* What the claims speak of *)

\* p has been told it locked j and has not yet released it
Holding(p, j) ==
    \/ pc[p] = "locked" /\ arg[p] = j
    \/ pc[p] \in {"exec", "unlock"} /\ held[p].id = j

\* lock_job tells p in this step that it locked j
Granted(p, j) == pc[p] = "lock_update" /\ pc'[p] = "locked" /\ arg[p] = j

\* this step is p's report of a failed execution
FailureReported(p) ==
    /\ pc[p] = "exec"
    /\ pc'[p] = "unlock"
    /\ held'[p].attempts = held[p].attempts + 1

Terminal(st) == st \in {"completed", "dead"}

\* j is PROCESSING under the lease of a process that has died
Orphaned(j) ==
    /\ jobs[j].state = "processing"
    /\ jobs[j].locked_by \in Procs
    /\ pc[jobs[j].locked_by] = "dead"
    /\ jobs[j].locked_at # NoTime

-----------------------------------------------------------------------------
\* C1: lock_job never tells a worker that it locked a job while the table
\* still shows another worker's lease on that job, younger than 300 s, that
\* this other worker was granted and has not released.
C1_MutualExclusion ==
    [][\A p \in Procs, j \in JobIds :
          Granted(p, j) /\ j \in Stored =>
              ~ \E q \in Procs \ {p} :
                    /\ Holding(q, j)
                    /\ jobs[j].locked_by = q
                    /\ jobs[j].locked_at # NoTime
                    /\ now - jobs[j].locked_at < LEASE_TIMEOUT]_vars

\* C2: two concurrent get_next_job calls that both found the one PENDING job
\* do not both end without an answer: one returns the job, the other None.
C2_ExactlyOneReturns ==
    \A p, q \in Procs :
        p # q => ~ ( /\ Blocked(p) /\ Blocked(q)
                     /\ cand[p].id = cand[q].id
                     /\ cand[p].state = "pending"
                     /\ Cardinality(Stored) = 1 )

\* C3: a stored job whose state is COMPLETED or DEAD keeps that state in
\* every step taken by get_next_job, lock_job, unlock_job or a worker's report.
C3_TerminalSticky ==
    [][\A j \in Stored :
          Terminal(jobs[j].state) => jobs'[j].state = jobs[j].state]_vars

\* C4 (as claimed): a failed execution is recorded as DEAD exactly when it
\* brings attempts to max_retries; otherwise as FAILED with attempts below it.
C4_ExhaustionExact ==
    [][\A p \in Procs :
          FailureReported(p) =>
              LET w == jobs'[held[p].id]
              IN  /\ w.state = "dead" <=> w.attempts = w.max_retries
                  /\ w.state # "dead" => w.state = "failed" /\ w.attempts < w.max_retries
                  /\ w.state = "dead" => w.error_message = "exceeded"]_vars

\* C4 (amended): a failed execution is recorded as DEAD, with the
\* retry-exhaustion message, exactly when it brings attempts to max_retries
\* or above, and otherwise as FAILED with attempts below max_retries; for a
\* job taken with attempts below max_retries that is the failure that brings
\* attempts to max_retries.
C4_ExhaustionAtLeast ==
    [][\A p \in Procs :
          FailureReported(p) =>
              LET w == jobs'[held[p].id]
              IN  /\ w.state = "dead" <=> w.attempts >= w.max_retries
                  /\ w.state # "dead" => w.state = "failed" /\ w.attempts < w.max_retries
                  /\ w.state = "dead" => w.error_message = "exceeded"
                  /\ held[p].attempts < held[p].max_retries =>
                         (w.state = "dead" <=> w.attempts = w.max_retries)]_vars

\* C4 witness: a job with max_retries = 2 has just been recorded DEAD by its
\* second failure.
C4_Witness ==
    \E p \in Procs :
        /\ pc[p] = "unlock"
        /\ held[p].state = "dead"
        /\ held[p].max_retries >= 2
        /\ held[p].attempts = held[p].max_retries
        /\ jobs[held[p].id].state = "dead"
        /\ jobs[held[p].id].error_message = "exceeded"

\* C6: lock_job by p on a job leased to another worker answers False and
\* leaves the table alone while the lease is younger than 300 s, and goes on
\* to write p's lease once the lease is 300 s old or older.
C6_LeaseFreshnessDecides ==
    [][\A p \in Procs :
          /\ (pc[p] = "idle" /\ pc'[p] \in {"refused", "lock_update"}) =>
                LET j == arg'[p]
                IN  (j \in Stored /\ jobs[j].locked_by \notin {NoWorker, p}
                                  /\ jobs[j].locked_at # NoTime) =>
                        IF now - jobs[j].locked_at < LEASE_TIMEOUT
                        THEN pc'[p] = "refused" /\ jobs' = jobs
                        ELSE pc'[p] = "lock_update"
          /\ (pc[p] = "lock_update" /\ pc'[p] # "lock_update" /\ arg[p] \in Stored) =>
                /\ pc'[p] = "locked"
                /\ jobs'[arg[p]].locked_by = p
                /\ jobs'[arg[p]].locked_at = now]_vars

\* C6 witness: p has taken over a lease that q was granted 300 s or more ago
\* while q is still at work on the job.
C6_Witness ==
    \E p \in Procs, q \in Procs :
        /\ p # q
        /\ pc[p] = "locked"
        /\ jobs[arg[p]].locked_by = p
        /\ pc[q] \in {"exec", "unlock"}
        /\ held[q].id = arg[p]
        /\ held[q].locked_by = q
        /\ jobs[arg[p]].locked_at - held[q].locked_at >= LEASE_TIMEOUT

\* C7: a get_next_job call that began when a lease was 300 s old or older
\* does not come back empty-handed while the job under that lease is left
\* PROCESSING by a dead worker.
C7_CrashRecovery ==
    [][\A p \in Procs :
          (pc[p] = "gnj_failed" /\ pc'[p] = "sleep") =>
              ~ \E j \in Stored :
                    Orphaned(j) /\ gnj_now[p] - jobs[j].locked_at >= LEASE_TIMEOUT]_vars

\* C9: the row get_next_job selects from its PENDING query is PENDING, and
\* the row it selects from its FAILED query is FAILED with attempts below
\* max_retries and a next_retry_at that is null or not later than the clock.
C9_BackoffGating ==
    [][\A p \in Procs :
          /\ (pc[p] = "idle" /\ pc'[p] = "gnj_lock") =>
                /\ cand'[p] = jobs[cand'[p].id]
                /\ cand'[p].state = "pending"
          /\ (pc[p] = "gnj_failed" /\ pc'[p] = "gnj_lock") =>
                /\ cand'[p] = jobs[cand'[p].id]
                /\ cand'[p].state = "failed"
                /\ cand'[p].attempts < cand'[p].max_retries
                /\ cand'[p].next_retry_at = NoTime \/ cand'[p].next_retry_at <= now]_vars

\* C9 witness: get_next_job has come back empty-handed while the only job is
\* FAILED, unleased, has attempts left and a next_retry_at still ahead.
C9_Witness ==
    \E p \in Procs, j \in Stored :
        /\ pc[p] = "sleep"
        /\ jobs[j].state = "failed"
        /\ jobs[j].attempts < jobs[j].max_retries
        /\ Unleased(jobs[j])
        /\ jobs[j].next_retry_at > now

\* C5: every stored job that is not DEAD has attempts <= max_retries, and no
\* stored job is FAILED with attempts >= max_retries.
C5_AttemptsWithinMax ==
    \A j \in Stored :
        /\ jobs[j].state # "dead" => jobs[j].attempts <= jobs[j].max_retries
        /\ jobs[j].state = "failed" => jobs[j].attempts < jobs[j].max_retries

\* C8: every job in the store eventually reaches COMPLETED or DEAD.
C8_EventualCompletion ==
    \A j \in JobIds :
        [](j \in Stored => <>(j \in Stored /\ Terminal(jobs[j].state)))

\* C10: a failure that schedules a retry with attempts = n sets next_retry_at
\* to the time of the failure plus backoff_base^n, which is strictly later
\* than the failure; for backoff_base > 1 the delay is longer than the one the
\* failure before it got.
C10_BackoffDelay ==
    [][\A p \in Procs :
          (FailureReported(p) /\ held'[p].state = "failed") =>
              LET n == held'[p].attempts
                  delay == held'[p].next_retry_at - now
              IN  /\ \E b \in BackoffBases :
                         /\ delay = Pow(b, n)
                         /\ (b > 1 /\ n >= 2) => delay > Pow(b, n - 1)
                  /\ held'[p].next_retry_at > now
                  /\ jobs'[held[p].id].next_retry_at = held'[p].next_retry_at]_vars

\* this step ends p's processing cycle on a job whose command exited with 0
SuccessCycleEnds(p) ==
    /\ pc[p] = "unlock"
    /\ pc'[p] = "idle"
    /\ held[p].state = "completed"
    /\ held[p].id \in Stored

\* C11: when a worker cycle whose command exited with code 0 is over, the
\* job's row is COMPLETED with the attempts the worker read when it took the
\* job, a null error_message and no lease.
C11_SuccessOutcome ==
    [][\A p \in Procs :
          SuccessCycleEnds(p) =>
              LET w == jobs'[held[p].id]
              IN  /\ w.state = "completed"
                  /\ w.attempts = held[p].attempts
                  /\ w.error_message = NoMsg
                  /\ w.locked_by = NoWorker
                  /\ w.locked_at = NoTime]_vars

\* C12: the dlq retry command, writing back a job that no worker has in
\* hand, leaves it PENDING with attempts 0, a null error_message and a null
\* next_retry_at, and without a lease, so that the PENDING query of a
\* following get_next_job selects it.
C12_RetryRequeues ==
    [][(cli.op = "retry" /\ cli'.op = "exit" /\ cli.id \in Stored
          /\ \A p \in Procs : ~Holding(p, cli.id) /\ pc[p] # "lock_update") =>
              LET w == jobs'[cli.id]
              IN  /\ w.state = "pending"
                  /\ w.attempts = 0
                  /\ w.error_message = NoMsg
                  /\ w.next_retry_at = NoTime
                  /\ Unleased(w)]_vars

\* C13: dlq retry on an id that is not stored prints not-found, on a stored
\* job that is not DEAD prints not-in-DLQ, and in both cases the command
\* changes no row, neither when it decides nor when it exits.
C13_RetryErrors ==
    [][/\ (cli.op = "none" /\ cli'.op # "none") =>
             /\ cli'.id \notin Stored => cli'.out = "not_found" /\ jobs' = jobs
             /\ (cli'.id \in Stored /\ jobs[cli'.id].state # "dead") =>
                    cli'.out = "not_in_dlq" /\ jobs' = jobs
       /\ (cli.out \in {"not_found", "not_in_dlq"} /\ cli' # cli) => jobs' = jobs]_vars

\* C13 witness: the command has refused a stored FAILED job, and the row
\* still is what the worker's last report left.
C13_Witness ==
    /\ cli.out = "not_in_dlq"
    /\ cli.id \in Stored
    /\ jobs[cli.id].state = "failed"
    /\ jobs[cli.id].attempts = 1

\* C14: every row the enqueue command adds to the table has state PENDING
\* and attempts 0, whatever the submission carried.
C14_EnqueuedPending ==
    [][\A j \in JobIds :
          (j \notin Stored /\ j \in DOMAIN jobs') =>
              jobs'[j].state = "pending" /\ jobs'[j].attempts = 0]_vars

\* this step is an enqueue command's add_job
EnqueueRuns == cli.op = "none" /\ cli'.out \in {"enqueued", "error"}

\* C15: add_job of an id that is already stored fails with an error and
\* changes no row, the stored one included; the table gains no row.
C15_DuplicateRejected ==
    [][(EnqueueRuns /\ cli'.id \in Stored) =>
           /\ cli'.out = "error"
           /\ jobs' = jobs
           /\ DOMAIN jobs' = Stored]_vars

\* C15 witness: an enqueue of a stored id has failed, and the row kept is
\* not the submitted one.
C15_Witness ==
    /\ cli.out = "error"
    /\ cli.id \in Stored
    /\ jobs[cli.id].state # cli.job.state
    /\ jobs[cli.id].attempts # cli.job.attempts

CycleEnds(p) ==
    \/ pc[p] = "unlock" /\ pc'[p] = "idle"
    \/ pc[p] = "unlock_raise" /\ pc'[p] = "run_except"
    \/ pc[p] = "run_except" /\ pc'[p] = "sleep"

\* C17: when a worker's processing cycle on a job ends, whatever the outcome
\* was (exit 0, non-zero exit, timeout, execution exception, or update_job
\* raising while the outcome is reported), the job's row has locked_by and
\* locked_at null.
C17_LeaseReleased ==
    [][\A p \in Procs :
          (CycleEnds(p) /\ held[p].id \in Stored) =>
              /\ jobs'[held[p].id].locked_by = NoWorker
              /\ jobs'[held[p].id].locked_at = NoTime]_vars

\* C17 witness: update_job raised while p reported, the finally block has
\* run, and the row, never updated, is PROCESSING with no lease.
C17_Witness ==
    \E p \in Procs :
        /\ pc[p] = "run_except"
        /\ held[p].id \in Stored
        /\ jobs[held[p].id].state = "processing"
        /\ jobs[held[p].id].locked_by = NoWorker
        /\ jobs[held[p].id].locked_at = NoTime

\* C18: a worker that has received a termination signal begins no further
\* claim and eventually leaves its loop.
C18_GracefulShutdown ==
    \A p \in Procs : [](~running[p] => <>(pc[p] = "stopped"))

\* C19: every stored job whose state is PROCESSING has a non-null locked_by.
C19_ProcessingHasLease ==
    \A j \in Stored :
        jobs[j].state = "processing" => jobs[j].locked_by # NoWorker

\* C20: every stored job that is PROCESSING, COMPLETED or DEAD has a null
\* next_retry_at.
C20_RetryTimeOnlyWhenScheduled ==
    \A j \in Stored :
        jobs[j].state \in {"processing", "completed", "dead"} =>
            jobs[j].next_retry_at = NoTime

\* this step is p's report of the command it ran: update_job has been
\* called, and has written or has raised
CycleReports(p) == pc[p] = "exec" /\ pc'[p] \in {"unlock", "unlock_raise"}

\* C21: the report of a cycle leaves the stored attempts one above what
\* they were if the command failed (non-zero exit, timeout, exception) and
\* as they were if the command exited with 0, also when update_job raises
\* during the report.
C21_AttemptsCountFailures ==
    [][\A p \in Procs :
          (CycleReports(p) /\ held[p].id \in Stored
                /\ jobs[held[p].id].attempts = held[p].attempts) =>
              jobs'[held[p].id].attempts =
                  held[p].attempts + (IF ran'[p] = "ok" THEN 0 ELSE 1)]_vars

\* this step is a write of worker p (update_job or unlock_job) that changes
\* the row of the job it has in hand
WorkerWrites(p) ==
    /\ HasCurrentJob(p)
    /\ pc'[p] # pc[p]
    /\ held[p].id \in Stored
    /\ jobs'[held[p].id] # jobs[held[p].id]

\* C22: a worker's update_job or unlock_job changes a job's row only while
\* the row's lease is that worker's; a lease that names another worker is
\* neither overwritten nor cleared.
C22_WritesUnderOwnLease ==
    [][\A p \in Procs :
          WorkerWrites(p) => jobs[held[p].id].locked_by = p]_vars

\* C23: no worker whose running flag is set has left its loop: a failed
\* command or a store operation that raises never ends Worker.run.
C23_FailuresNeverStopLoop ==
    \A p \in Procs : running[p] => pc[p] # "raised"

\* this step is a start_workers call / a stop_workers call
StartReturns == pool'.last.op = "start" /\ pool'.last # pool.last
StopReturns == pool'.last.op = "stop" /\ pool' # pool

C25_StopCompletes ==
    [][StopReturns =>
           /\ ~pool'.last.raised
           /\ pool'.pidfile = {}
           /\ \A u \in Users : ActiveCount(u)' = 0]_vars

\* C25 witness: a stop has met a recorded process it may not signal and a
\* recorded process that was already dead, and has returned.
C25_Witness ==
    /\ pool.last.op = "stop"
    /\ ~pool.last.raised
    /\ pool.pidfile = {}
    /\ \E pid \in pool.last.old : pid \in Live
    /\ \E pid \in pool.last.old : pid \notin Live

\* the submission is malformed: no JSON, an unknown state, or no command
Malformed(sub) ==
    \/ sub.path = "json" /\ ~sub.parses
    \/ sub.path = "json" /\ sub.state \notin JobStates
    \/ sub.command = NoCommand

\* C26: an enqueue of a malformed submission reports an error and leaves
\* the table as it was.
C26_MalformedRejected ==
    [][(cli.op = "none" /\ cli'.sub # NoSub /\ Malformed(cli'.sub)) =>
           /\ cli'.out = "error"
           /\ jobs' = jobs]_vars

\* the get_next_job call of p has returned (None to the loop's sleep, or a
\* job to _process_job)
GetNextJobReturned(p) == pc[p] \in {"sleep", "exec"}

\* C27: every get_next_job call returns, whether the store has a claimable
\* job or not.
C27_GetNextJobReturns ==
    \A p \in Procs : [](InGetNextJob(p) => <>GetNextJobReturned(p))

UnlockedPending == {j \in Stored : jobs[j].state = "pending" /\ Unleased(jobs[j])}
OldestPending ==
    {j \in UnlockedPending :
        \A k \in UnlockedPending : jobs[j].created_at <= jobs[k].created_at}

\* the retry-ready FAILED jobs; the first among them by (next_retry_at, created_at)
RetryReadyJobs == {j \in Stored : RetryReady(jobs[j], now)}
FirstRetry ==
    {j \in RetryReadyJobs :
        \A k \in RetryReadyJobs :
            \/ jobs[j].next_retry_at < jobs[k].next_retry_at
            \/ /\ jobs[j].next_retry_at = jobs[k].next_retry_at
               /\ jobs[j].created_at <= jobs[k].created_at}

\* the jobs the claimed order puts first
DueFirst == IF UnlockedPending # {} THEN OldestPending ELSE FirstRetry

\* every selection get_next_job makes is of a job the claimed order puts first
SelectsInOrder ==
    (pc[OrderProc] \in {"idle", "gnj_failed"} /\ pc'[OrderProc] = "gnj_lock") =>
        cand'[OrderProc].id \in DueFirst

\* C29: with one worker and nothing else acting, every job get_next_job
\* selects is one the order puts first (the oldest unlocked PENDING job, or
\* without any the retry-ready FAILED job first by next_retry_at, then
\* created_at), and the call in which one job is first returns that job.
C29_SelectionOrder ==
    /\ [][SelectsInOrder]_vars
    /\ \A j \in OrderIds :
           []((InGetNextJob(OrderProc) /\ DueFirst = {j}) =>
                  <>(pc[OrderProc] = "exec" /\ held[OrderProc].id = j))

\* get_next_job would select j: an unlocked PENDING row or a retry-ready
\* FAILED one
Claimable(j) ==
    \/ jobs[j].state = "pending" /\ Unleased(jobs[j])
    \/ RetryReady(jobs[j], now)

\* the stop's signal has reached StopProc while it executes j
StopReached(j) ==
    /\ ~running[StopProc]
    /\ pc[StopProc] = "exec"
    /\ held[StopProc].id = j

\* C30: a job whose worker the pool's stop reached during its execution
\* does not stay PROCESSING forever: it is reported, or it becomes claimable
\* by get_next_job.
C30_StoppedJobNotStuck ==
    \A j \in JobIds :
        [](StopReached(j) =>
               <>(j \in Stored /\ (jobs[j].state # "processing" \/ Claimable(j))))

\* this step is a call unlock_job(arg'[p]) by p
UnlockCalled(p) == pc[p] = "idle" /\ pc'[p] = "unlocked"

\* C31: unlock_job(id) sets locked_by and locked_at of that job to null and
\* changes nothing else: the job's other fields, every other job and the set
\* of stored jobs stay as they were; on a job without a lease and on an
\* unknown id the table is unchanged, so a repeated call changes nothing.
C31_UnlockFrame ==
    [][\A p \in Procs :
          UnlockCalled(p) =>
              LET j == arg'[p]
              IN  /\ DOMAIN jobs' = DOMAIN jobs
                  /\ \A k \in Stored \ {j} : jobs'[k] = jobs[k]
                  /\ j \in Stored =>
                        /\ jobs'[j].locked_by = NoWorker
                        /\ jobs'[j].locked_at = NoTime
                        /\ jobs'[j].id = jobs[j].id
                        /\ jobs'[j].command = jobs[j].command
                        /\ jobs'[j].state = jobs[j].state
                        /\ jobs'[j].attempts = jobs[j].attempts
                        /\ jobs'[j].max_retries = jobs[j].max_retries
                        /\ jobs'[j].created_at = jobs[j].created_at
                        /\ jobs'[j].error_message = jobs[j].error_message
                        /\ jobs'[j].next_retry_at = jobs[j].next_retry_at
                  /\ (j \notin Stored
                         \/ (jobs[j].locked_by = NoWorker /\ jobs[j].locked_at = NoTime)) =>
                        jobs' = jobs]_vars

\* C31 witness: unlock_job has cleared the lease of a job its worker is
\* executing, the row is still PROCESSING, and the other job, FAILED with a
\* retry scheduled, is stored beside it.
C31_Witness ==
    \E j, k \in Stored :
        /\ j # k
        /\ pc[UnlockCaller] = "unlocked"
        /\ arg[UnlockCaller] = j
        /\ pc[OrderProc] = "exec"
        /\ held[OrderProc].id = j
        /\ held[OrderProc].locked_by = OrderProc
        /\ jobs[j].state = "processing"
        /\ jobs[j].locked_by = NoWorker
        /\ jobs[j].locked_at = NoTime
        /\ jobs[k].state = "failed"
        /\ jobs[k].next_retry_at # NoTime

\* C32: no step of enqueue, claim, report, release or dlq retry removes a
\* stored job or changes its id, command, max_retries or created_at, and a
\* job enters the store with the id, command, max_retries and created_at of
\* the Job that was added.
C32_ImmutableFields ==
    [][/\ \A j \in Stored :
             /\ j \in DOMAIN jobs'
             /\ jobs'[j].id = jobs[j].id
             /\ jobs'[j].command = jobs[j].command
             /\ jobs'[j].max_retries = jobs[j].max_retries
             /\ jobs'[j].created_at = jobs[j].created_at
       /\ \A j \in DOMAIN jobs' \ Stored :
             /\ cli'.job.id = j
             /\ jobs'[j].id = j
             /\ jobs'[j].command = cli'.job.command
             /\ jobs'[j].max_retries = cli'.job.max_retries
             /\ jobs'[j].created_at = cli'.job.created_at]_vars

\* C32 witness: a job added without a command and with max_retries 0 has
\* been claimed, has died at its first failure, has been released and has
\* just been moved back by dlq retry, after the clock advanced: the row still
\* has the command, max_retries and created_at it was added with.
C32_Witness ==
    \E j \in Stored :
        /\ cli.out = "moved"
        /\ cli.id = j
        /\ jobs[j].command = NoCommand
        /\ jobs[j].max_retries = 0
        /\ jobs[j].created_at = 0
        /\ jobs[j].state = "pending"
        /\ jobs[j].attempts = 0
        /\ jobs[j].locked_by = NoWorker
        /\ pc[CliWorker] = "idle"
        /\ now > 0
====
